---- MODULE Spec2Model ----
(***************************************************************************)
(* Message lifecycle engine of sales_app: the API handlers                 *)
(* (src/handlers.rs), the four cron scan cycles (src/scheduler.rs) and the *)
(* outreach_log audit table, over the rows of the leads, messages and      *)
(* outreach_log relations.                                                 *)
(*                                                                         *)
(* Timestamps are hours on one UTC clock.  The code stores them as         *)
(* Utc::now().to_rfc3339() strings and compares them in SQL as text; all   *)
(* of them carry the same "+00:00" offset and '+' sorts before '.' and the *)
(* digits, so the text order is the order of the instants.                 *)
(***************************************************************************)
EXTENDS Integers, Sequences, FiniteSets, Bags, TLC

VARIABLES
    leads,          \* the rows of table leads, by id (models.rs Lead)
    messages,       \* the rows of table messages, by id (models.rs Message)
    outreach_log,   \* per message id, its rows of table outreach_log, oldest first
    transitions,    \* ghost: per message id, the INSERT and UPDATEs applied to its row
    calls,          \* ghost: /reply and /ai/reply requests served for an existing message
    now,            \* Utc::now(), in hours
    tasks,          \* the handler and job futures suspended at an await
    last            \* the handler or job that ran last, and the response it gave

vars == <<leads, messages, outreach_log, transitions, calls, now, tasks, last>>

\* ------------------------------------------------------------------ bounds
MaxLeads == 1
MaxMsgs == 2
\* /reply and /ai/reply requests that name an existing message
MaxCalls == 2
\* the clock advances MaxTicks times
MaxTicks == 2
\* the stepwise specifications: executions in flight at once, messages (also
\* of the fair specification), and /reply and /ai/reply requests that name an
\* existing message
MaxTasks == 2
MaxStepMsgs == 1
MaxStepCalls == 1

\* Duration::hours(24)
Day == 24
\* the clock is observed every 25 hours ("sent 25 hours ago")
ClockStep == Day + 1

\* ------------------------------------------------------------- Option<T>
None == <<>>
Some(v) == <<v>>
IsNull(o) == o = None
NotNull(o) == o # None
Val(o) == o[1]

\* ------------------------------------------------------ models.rs values
Enqueued == "enqueued"
Sent == "sent"
Replied == "replied"
AiEnqueued == "ai_enqueued"
AiReplied == "ai_replied"
FollowUp == "follow_up"
Closed == "closed"

MessageStatus == {Enqueued, Sent, Replied, AiEnqueued, AiReplied, FollowUp, Closed}

\* HTTP status codes of the handlers; NoCode marks a step that answers nobody
CREATED == 201
OK == 200
BAD_REQUEST == 400
NOT_FOUND == 404
NoCode == 0

ai_response == "Thank you for your interest! Our team will follow up shortly."

\* request payloads
Names == {"", "Jane"}
Emails == {None, Some("j@x.com")}
Phones == {None}
Texts == {"Hi"}
Replies == {"yes"}

\* ------------------------------------------------------------- the rows
\* an INSERT that also stamps sent_at
NewMessageStamped(lead_id, text, t) ==
    [leads_id |-> lead_id,
     message_sent |-> Some(text),
     sent_at |-> Some(t),
     reply_received |-> None,
     reply_received_at |-> None,
     ai_reply |-> None,
     ai_reply_sent |-> None,
     created_at |-> t,
     status |-> Enqueued,
     follow_up_at |-> None,
     closed_at |-> None]

\* INSERT INTO messages (leads_id, message_sent, created_at, status): the
\* columns the statement does not name are NULL
NewMessage(lead_id, text, t) ==
    [leads_id |-> lead_id,
     message_sent |-> Some(text),
     sent_at |-> None,
     reply_received |-> None,
     reply_received_at |-> None,
     ai_reply |-> None,
     ai_reply_sent |-> None,
     created_at |-> t,
     status |-> Enqueued,
     follow_up_at |-> None,
     closed_at |-> None]

\* SELECT COUNT(*) FROM leads WHERE id = ?
LeadCount(ls, lead_id) == Cardinality({i \in DOMAIN ls : i = lead_id})

\* a statement that lost its WHERE clause
WhereAny(msgs, id) == DOMAIN msgs

\* WHERE id = ?: the rows a statement touches, and RETURNING's result set
WhereId(msgs, id) == {i \in DOMAIN msgs : i = id}

\* a reply accepted only on a message that is Sent
SetReplyIfSent(msgs, id, reply, t) ==
    [i \in DOMAIN msgs |->
        IF i \in WhereId(msgs, id) /\ msgs[i].status = Sent
        THEN [msgs[i] EXCEPT !.reply_received = Some(reply),
                             !.reply_received_at = Some(t),
                             !.status = Replied]
        ELSE msgs[i]]

\* UPDATE messages SET reply_received = ?, reply_received_at = ?, status = ? WHERE id = ?
SetReply(msgs, id, reply, t) ==
    [i \in DOMAIN msgs |->
        IF i \in WhereId(msgs, id)
        THEN [msgs[i] EXCEPT !.reply_received = Some(reply),
                             !.reply_received_at = Some(t),
                             !.status = Replied]
        ELSE msgs[i]]

\* an AI reply accepted only on a message that is Sent
SetAiReplyIfSent(msgs, id) ==
    [i \in DOMAIN msgs |->
        IF i \in WhereId(msgs, id) /\ msgs[i].status = Sent
        THEN [msgs[i] EXCEPT !.ai_reply = Some(ai_response), !.status = AiEnqueued]
        ELSE msgs[i]]

\* UPDATE messages SET ai_reply = ?, status = ? WHERE id = ?
SetAiReply(msgs, id) ==
    [i \in DOMAIN msgs |->
        IF i \in WhereId(msgs, id)
        THEN [msgs[i] EXCEPT !.ai_reply = Some(ai_response), !.status = AiEnqueued]
        ELSE msgs[i]]

\* UPDATE messages SET status = ?, sent_at = ? WHERE id = ?
SetSent(msgs, id, t) ==
    [i \in DOMAIN msgs |->
        IF i \in WhereId(msgs, id)
        THEN [msgs[i] EXCEPT !.status = Sent, !.sent_at = Some(t)]
        ELSE msgs[i]]

\* UPDATE messages SET status = ?, ai_reply_sent = ? WHERE id = ?
SetAiReplied(msgs, id, t) ==
    [i \in DOMAIN msgs |->
        IF i \in WhereId(msgs, id)
        THEN [msgs[i] EXCEPT !.status = AiReplied, !.ai_reply_sent = Some(t)]
        ELSE msgs[i]]

\* UPDATE messages SET status = ?, follow_up_at = ? WHERE id = ?
SetFollowUp(msgs, id, t) ==
    [i \in DOMAIN msgs |->
        IF i \in WhereId(msgs, id)
        THEN [msgs[i] EXCEPT !.status = FollowUp, !.follow_up_at = Some(t)]
        ELSE msgs[i]]

\* UPDATE messages SET status = ?, closed_at = ? WHERE id = ?
SetClosed(msgs, id, t) ==
    [i \in DOMAIN msgs |->
        IF i \in WhereId(msgs, id)
        THEN [msgs[i] EXCEPT !.status = Closed, !.closed_at = Some(t)]
        ELSE msgs[i]]

\* INSERT INTO outreach_log (message_id, log_at, step): the rows of one
\* message, oldest first
LogOutreach(log, message_id, step, t) ==
    [log EXCEPT ![message_id] = Append(@, [log_at |-> t, step |-> step])]

\* one more write on every row a statement with WHERE id = ? touches
Touch(tr, msgs, id) ==
    [i \in DOMAIN tr |-> IF i \in WhereId(msgs, id) THEN tr[i] + 1 ELSE tr[i]]

\* ---------------------------------------------------- candidate queries
\* SELECT id FROM messages WHERE status = ?
SelectByStatus(msgs, s) == {i \in DOMAIN msgs : msgs[i].status = s}

\* (Utc::now() - Duration::hours(24))
Cutoff(t) == t - Day

\* a follow-up SELECT that does not ask for follow_up_at IS NULL
FollowUpCandidatesAgain(msgs, cutoff) ==
    {i \in DOMAIN msgs :
        /\ NotNull(msgs[i].sent_at)
        /\ Val(msgs[i].sent_at) < cutoff
        /\ IsNull(msgs[i].reply_received)
        /\ IsNull(msgs[i].reply_received_at)
        /\ IsNull(msgs[i].closed_at)}

\* the follow-up cycle's SELECT
FollowUpCandidates(msgs, cutoff) ==
    {i \in DOMAIN msgs :
        /\ NotNull(msgs[i].sent_at)
        /\ Val(msgs[i].sent_at) < cutoff
        /\ IsNull(msgs[i].reply_received)
        /\ IsNull(msgs[i].reply_received_at)
        /\ IsNull(msgs[i].follow_up_at)
        /\ IsNull(msgs[i].closed_at)}

\* a close SELECT that reads sent_at where it should read follow_up_at
ClosedCandidatesBySent(msgs, cutoff) ==
    {i \in DOMAIN msgs :
        /\ NotNull(msgs[i].sent_at)
        /\ Val(msgs[i].sent_at) < cutoff
        /\ IsNull(msgs[i].reply_received)
        /\ IsNull(msgs[i].reply_received_at)
        /\ IsNull(msgs[i].closed_at)}

\* the close cycle's SELECT
ClosedCandidates(msgs, cutoff) ==
    {i \in DOMAIN msgs :
        /\ NotNull(msgs[i].follow_up_at)
        /\ Val(msgs[i].follow_up_at) < cutoff
        /\ IsNull(msgs[i].reply_received)
        /\ IsNull(msgs[i].reply_received_at)
        /\ IsNull(msgs[i].closed_at)}

\* the ids of a result set, in rowid order
RECURSIVE Rows(_)
Rows(S) ==
    IF S = {} THEN <<>>
    ELSE LET m == CHOOSE x \in S : \A y \in S : x <= y
         IN <<m>> \o Rows(S \ {m})

\* fetch_optional on UPDATE ... WHERE id = ? RETURNING ...: the row, if any
Returning(msgs, id) == Rows(WhereId(msgs, id))

\* ------------------------------------------------------ the scan cycles
Cycles == {Enqueued, AiEnqueued, FollowUp, Closed}

\* the status a cycle moves its candidates to
NewStatus(cycle) ==
    CASE cycle = Enqueued -> Sent
      [] cycle = AiEnqueued -> AiReplied
      [] cycle = FollowUp -> FollowUp
      [] cycle = Closed -> Closed

\* the candidate query of a cycle started at time t
Candidates(cycle, msgs, t) ==
    CASE cycle = Enqueued -> SelectByStatus(msgs, Enqueued)
      [] cycle = AiEnqueued -> SelectByStatus(msgs, AiEnqueued)
      [] cycle = FollowUp -> FollowUpCandidates(msgs, Cutoff(t))
      [] cycle = Closed -> ClosedCandidates(msgs, Cutoff(t))

\* an UPDATE of the status without its WHERE id = ?
ScanUpdateAll(cycle, msgs, id, t) ==
    [i \in DOMAIN msgs |-> [msgs[i] EXCEPT !.status = NewStatus(cycle)]]

\* the UPDATE a cycle issues for one candidate
ScanUpdate(cycle, msgs, id, t) ==
    CASE cycle = Enqueued -> SetSent(msgs, id, t)
      [] cycle = AiEnqueued -> SetAiReplied(msgs, id, t)
      [] cycle = FollowUp -> SetFollowUp(msgs, id, t)
      [] cycle = Closed -> SetClosed(msgs, id, t)

\* the database: the three relations' rows and the per-row write count
Db(msgs, log, tr) == [messages |-> msgs, outreach_log |-> log, transitions |-> tr]

\* a loop that returns after its first candidate
ProcessHead(cycle, cands, db, t) ==
    IF cands = <<>> THEN db
    ELSE Db(ScanUpdate(cycle, db.messages, Head(cands), t),
            LogOutreach(db.outreach_log, Head(cands), NewStatus(cycle), t),
            Touch(db.transitions, db.messages, Head(cands)))

\* the for loop of a cycle with every statement succeeding: one UPDATE and
\* one log_outreach per candidate, all stamped t
RECURSIVE ProcessAll(_, _, _, _)
ProcessAll(cycle, cands, db, t) ==
    IF cands = <<>> THEN db
    ELSE LET id == Head(cands)
         IN ProcessAll(cycle, Tail(cands),
                Db(ScanUpdate(cycle, db.messages, id, t),
                   LogOutreach(db.outreach_log, id, NewStatus(cycle), t),
                   Touch(db.transitions, db.messages, id)),
                t)

\* one whole execution of a cycle at time t, nothing else running
RunCycle(cycle, db, t) ==
    ProcessAll(cycle, Rows(Candidates(cycle, db.messages, t)), db, t)

\* a loop that gives up at the first UPDATE that fails
ProcessUntilError(cycle, cands, failed, db, t) ==
    LET bad == {k \in DOMAIN cands : cands[k] \in failed}
        stop == IF bad = {} THEN Len(cands) + 1
                ELSE CHOOSE k \in bad : \A j \in bad : k <= j
    IN ProcessAll(cycle, SubSeq(cands, 1, stop - 1), db, t)

\* the for loop of a cycle in which the UPDATE of every candidate in `failed`
\* returns Err: the error is reported, log_outreach is not called, and the
\* loop goes on to the next candidate
RECURSIVE ProcessSome(_, _, _, _, _)
ProcessSome(cycle, cands, failed, db, t) ==
    IF cands = <<>> THEN db
    ELSE LET id == Head(cands)
         IN ProcessSome(cycle, Tail(cands), failed,
                IF id \in failed
                THEN db
                ELSE Db(ScanUpdate(cycle, db.messages, id, t),
                        LogOutreach(db.outreach_log, id, NewStatus(cycle), t),
                        Touch(db.transitions, db.messages, id)),
                t)

\* fetch_all(pool).await.unwrap_or_default(): the rows, or none when the
\* query fails
UnwrapOrDefault(rows, ok) == IF ok THEN rows ELSE <<>>

\* one whole execution of a cycle at time t, nothing else running, whose
\* candidate query succeeds or not and in which the UPDATEs of `failed` fail
RunCycleWithErrors(cycle, db, t, ok, failed) ==
    ProcessSome(cycle, UnwrapOrDefault(Rows(Candidates(cycle, db.messages, t)), ok),
                failed, db, t)

\* ------------------------------------------------------------ the state
Step(op, id, code) == [op |-> op, id |-> id, code |-> code]

Init ==
    /\ leads = <<>>
    /\ messages = <<>>
    /\ outreach_log = <<>>
    /\ transitions = <<>>
    /\ calls = 0
    /\ now = 0
    /\ tasks = EmptyBag
    /\ last = Step("init", 0, NoCode)

\* ------------------------------------------- handlers run start to finish
create_lead ==
    \E name \in Names, email \in Emails, phone \in Phones :
        /\ IF name = "" \/ (IsNull(email) /\ IsNull(phone))
           THEN /\ leads' = leads
                /\ last' = Step("create_lead", 0, BAD_REQUEST)
           ELSE /\ Len(leads) < MaxLeads
                /\ leads' = Append(leads, [name |-> name, email |-> email, phone |-> phone])
                /\ last' = Step("create_lead", Len(leads) + 1, CREATED)
        /\ UNCHANGED <<messages, outreach_log, transitions, calls, now, tasks>>

send_message ==
    \E lead_id \in 1..(MaxLeads + 1), text \in Texts :
        /\ IF LeadCount(leads, lead_id) = 0
           THEN /\ UNCHANGED <<messages, outreach_log, transitions>>
                /\ last' = Step("send_message", lead_id, NOT_FOUND)
           ELSE /\ Len(messages) < MaxMsgs
                /\ LET id == Len(messages) + 1
                   IN /\ messages' = Append(messages, NewMessage(lead_id, text, now))
                      /\ outreach_log' = LogOutreach(Append(outreach_log, <<>>), id, Enqueued, now)
                      /\ transitions' = Append(transitions, 1)
                      /\ last' = Step("send_message", id, CREATED)
        /\ UNCHANGED <<leads, calls, now, tasks>>

reply_to_message ==
    \E message_id \in 1..(MaxMsgs + 1), reply \in Replies :
        /\ Returning(messages, message_id) # <<>> => calls < MaxCalls
        /\ messages' = SetReply(messages, message_id, reply, now)
        /\ IF Returning(messages, message_id) # <<>>
           THEN /\ outreach_log' = LogOutreach(outreach_log, Head(Returning(messages, message_id)), Replied, now)
                /\ transitions' = Touch(transitions, messages, message_id)
                /\ calls' = calls + 1
                /\ last' = Step("reply_to_message", message_id, OK)
           ELSE /\ UNCHANGED <<outreach_log, transitions, calls>>
                /\ last' = Step("reply_to_message", message_id, NOT_FOUND)
        /\ UNCHANGED <<leads, now, tasks>>

ai_reply ==
    \E message_id \in 1..(MaxMsgs + 1) :
        /\ Returning(messages, message_id) # <<>> => calls < MaxCalls
        /\ messages' = SetAiReply(messages, message_id)
        /\ IF Returning(messages, message_id) # <<>>
           THEN /\ outreach_log' = LogOutreach(outreach_log, Head(Returning(messages, message_id)), AiEnqueued, now)
                /\ transitions' = Touch(transitions, messages, message_id)
                /\ calls' = calls + 1
                /\ last' = Step("ai_reply", message_id, OK)
           ELSE /\ UNCHANGED <<outreach_log, transitions, calls>>
                /\ last' = Step("ai_reply", message_id, NOT_FOUND)
        /\ UNCHANGED <<leads, now, tasks>>

\* the function start_scheduler registers for a cycle
JobName(cycle) ==
    CASE cycle = Enqueued -> "process_enqueued_messages"
      [] cycle = AiEnqueued -> "process_ai_enqueued_messages"
      [] cycle = FollowUp -> "process_follow_up_messages"
      [] cycle = Closed -> "process_closed_messages"

\* a cron firing of one cycle, run to completion
RunJob(cycle) ==
    LET db == RunCycle(cycle, Db(messages, outreach_log, transitions), now)
    IN /\ messages' = db.messages
       /\ outreach_log' = db.outreach_log
       /\ transitions' = db.transitions
       /\ last' = Step(JobName(cycle), 0, NoCode)
       /\ UNCHANGED <<leads, calls, now, tasks>>

process_enqueued_messages ==
    /\ RunJob(Enqueued)

process_ai_enqueued_messages ==
    /\ RunJob(AiEnqueued)

process_follow_up_messages ==
    /\ RunJob(FollowUp)

process_closed_messages ==
    /\ RunJob(Closed)

\* time passes
Tick ==
    /\ now < MaxTicks * ClockStep
    /\ now' = now + ClockStep
    /\ last' = Step("tick", 0, NoCode)
    /\ UNCHANGED <<leads, messages, outreach_log, transitions, calls, tasks>>

Next ==
    \/ create_lead
    \/ send_message
    \/ reply_to_message
    \/ ai_reply
    \/ process_enqueued_messages
    \/ process_ai_enqueued_messages
    \/ process_follow_up_messages
    \/ process_closed_messages
    \/ Tick

Spec == Init /\ [][Next]_vars

\* the cron expression "0 * * * * *" fires every job again and again, and
\* time passes
Fairness ==
    /\ WF_vars(process_enqueued_messages)
    /\ WF_vars(process_ai_enqueued_messages)
    /\ WF_vars(process_follow_up_messages)
    /\ WF_vars(process_closed_messages)
    /\ WF_vars(Tick)

\* send_message while fewer than MaxStepMsgs messages are stored
send_first_messages ==
    /\ send_message
    /\ Len(messages') <= MaxStepMsgs

\* handlers and cycles run one at a time, over MaxStepMsgs messages
NextLive ==
    \/ create_lead
    \/ send_first_messages
    \/ reply_to_message
    \/ ai_reply
    \/ process_enqueued_messages
    \/ process_ai_enqueued_messages
    \/ process_follow_up_messages
    \/ process_closed_messages
    \/ Tick

SpecLive == Init /\ [][NextLive]_vars /\ Fairness

\* a cron firing of one cycle, run to completion, in which the candidate
\* query and some UPDATEs may fail
RunJobWithErrors(cycle) ==
    \E ok \in BOOLEAN, failed \in SUBSET Candidates(cycle, messages, now) :
        LET db == RunCycleWithErrors(cycle, Db(messages, outreach_log, transitions),
                                     now, ok, failed)
        IN /\ messages' = db.messages
           /\ outreach_log' = db.outreach_log
           /\ transitions' = db.transitions
           /\ last' = Step(JobName(cycle), 0, NoCode)
           /\ UNCHANGED <<leads, calls, now, tasks>>

process_with_errors ==
    \E cycle \in Cycles : RunJobWithErrors(cycle)

\* handlers and cycles run one at a time, the UPDATEs of the cycles failing
\* at will
NextErrors ==
    \/ create_lead
    \/ send_message
    \/ reply_to_message
    \/ ai_reply
    \/ process_with_errors
    \/ Tick

SpecErrors == Init /\ [][NextErrors]_vars

\* ------------------------------------------------- handlers step by step
\* Every storage call is an await: other handlers and cycles run between
\* the statements of one execution, a statement may fail, and the process
\* may stop with executions in flight.  A task is one execution between two
\* of its statements.  The steps record no response in `last`.
Task(op, pc, cands, t) == [op |-> op, pc |-> pc, cands |-> cands, t |-> t]

Spawn(task) == tasks (+) SetToBag({task})
Finish(task) == tasks (-) SetToBag({task})
Replace(task, next) == (tasks (-) SetToBag({task})) (+) SetToBag({next})
Running == BagToSet(tasks)
CanSpawn == BagCardinality(tasks) < MaxTasks

\* the step label log_outreach is called with by the execution `op`
StepOf(op) ==
    CASE op = "send_message" -> Enqueued
      [] op = "reply_to_message" -> Replied
      [] op = "ai_reply" -> AiEnqueued
      [] OTHER -> NewStatus(op)

\* what is left of an execution once the candidate at the head is dealt with
Continue(task) ==
    IF task.op \in Cycles /\ Len(task.cands) > 1
    THEN Replace(task, [task EXCEPT !.pc = "update", !.cands = Tail(@)])
    ELSE Finish(task)

send_message_insert ==
    \E lead_id \in 1..(MaxLeads + 1), text \in Texts :
        /\ IF LeadCount(leads, lead_id) = 0
           THEN /\ UNCHANGED <<messages, outreach_log, transitions, tasks>>
                /\ last' = last
           ELSE /\ Len(messages) < MaxStepMsgs
                /\ CanSpawn
                /\ LET id == Len(messages) + 1
                   IN /\ messages' = Append(messages, NewMessage(lead_id, text, now))
                      /\ outreach_log' = Append(outreach_log, <<>>)
                      /\ transitions' = Append(transitions, 1)
                      /\ tasks' = Spawn(Task("send_message", "log", <<id>>, None))
                      /\ last' = last
        /\ UNCHANGED <<leads, calls, now>>

reply_to_message_update ==
    \E message_id \in 1..(MaxStepMsgs + 1), reply \in Replies :
        /\ messages' = SetReply(messages, message_id, reply, now)
        /\ IF Returning(messages, message_id) # <<>>
           THEN /\ calls < MaxStepCalls
                /\ CanSpawn
                /\ transitions' = Touch(transitions, messages, message_id)
                /\ calls' = calls + 1
                /\ tasks' = Spawn(Task("reply_to_message", "log", Returning(messages, message_id), None))
                /\ last' = last
           ELSE /\ UNCHANGED <<transitions, calls, tasks>>
                /\ last' = last
        /\ UNCHANGED <<leads, outreach_log, now>>

ai_reply_update ==
    \E message_id \in 1..(MaxStepMsgs + 1) :
        /\ messages' = SetAiReply(messages, message_id)
        /\ IF Returning(messages, message_id) # <<>>
           THEN /\ calls < MaxStepCalls
                /\ CanSpawn
                /\ transitions' = Touch(transitions, messages, message_id)
                /\ calls' = calls + 1
                /\ tasks' = Spawn(Task("ai_reply", "log", Returning(messages, message_id), None))
                /\ last' = last
           ELSE /\ UNCHANGED <<transitions, calls, tasks>>
                /\ last' = last
        /\ UNCHANGED <<leads, outreach_log, now>>

\* log_outreach, the INSERT succeeding
log_outreach_ok ==
    \E task \in Running :
        /\ task.pc = "log"
        /\ outreach_log' = LogOutreach(outreach_log, Head(task.cands), StepOf(task.op), now)
        /\ tasks' = Continue(task)
        /\ last' = last
        /\ UNCHANGED <<leads, messages, transitions, calls, now>>

\* log_outreach, the INSERT failing: the error is reported and dropped
log_outreach_err ==
    \E task \in Running :
        /\ task.pc = "log"
        /\ tasks' = Continue(task)
        /\ last' = last
        /\ UNCHANGED <<leads, messages, outreach_log, transitions, calls, now>>

\* a cron firing of a cycle, up to the result of its candidate query
scan_query ==
    \E cycle \in Cycles :
        LET cands == Rows(Candidates(cycle, messages, now))
        IN /\ IF cands = <<>>
              THEN UNCHANGED tasks
              ELSE /\ CanSpawn
                   /\ tasks' = Spawn(Task(cycle, "now", cands, None))
           /\ last' = last
           /\ UNCHANGED <<leads, messages, outreach_log, transitions, calls, now>>

\* the candidate query failing: unwrap_or_default() makes it an empty result
scan_query_err ==
    \E cycle \in Cycles :
        /\ last' = last
        /\ UNCHANGED <<leads, messages, outreach_log, transitions, calls, now, tasks>>

\* let now = Utc::now().to_rfc3339(), read once the result set is in hand
scan_now ==
    \E task \in Running :
        /\ task.pc = "now"
        /\ tasks' = Replace(task, [task EXCEPT !.pc = "update", !.t = Some(now)])
        /\ last' = last
        /\ UNCHANGED <<leads, messages, outreach_log, transitions, calls, now>>

\* the UPDATE of the candidate at the head, succeeding
scan_update_ok ==
    \E task \in Running :
        /\ task.pc = "update"
        /\ messages' = ScanUpdate(task.op, messages, Head(task.cands), Val(task.t))
        /\ transitions' = Touch(transitions, messages, Head(task.cands))
        /\ tasks' = Replace(task, [task EXCEPT !.pc = "log"])
        /\ last' = last
        /\ UNCHANGED <<leads, outreach_log, calls, now>>

\* the UPDATE failing: the error is reported and the loop goes on
scan_update_err ==
    \E task \in Running :
        /\ task.pc = "update"
        /\ tasks' = Continue(task)
        /\ last' = last
        /\ UNCHANGED <<leads, messages, outreach_log, transitions, calls, now>>

\* the process stops; what was written stays, what was in flight is gone
crash ==
    /\ tasks # EmptyBag
    /\ tasks' = EmptyBag
    /\ last' = last
    /\ UNCHANGED <<leads, messages, outreach_log, transitions, calls, now>>

\* handlers and cycles interleaved statement by statement, storage sound
NextSteps ==
    \/ create_lead
    \/ send_message_insert
    \/ reply_to_message_update
    \/ ai_reply_update
    \/ log_outreach_ok
    \/ scan_query
    \/ scan_now
    \/ scan_update_ok
    \/ Tick

SpecSteps == Init /\ [][NextSteps]_vars

\* message creation and the cycles interleaved statement by statement, with
\* statements that fail and a process that stops
NextFaults ==
    \/ create_lead
    \/ send_message_insert
    \/ log_outreach_ok
    \/ log_outreach_err
    \/ scan_query
    \/ scan_query_err
    \/ scan_now
    \/ scan_update_ok
    \/ scan_update_err
    \/ crash
    \/ Tick

SpecFaults == Init /\ [][NextFaults]_vars

\* ================================================================ claims
\* the audit rows of one message that carry the step label `step`
Entries(rows, step) == {k \in DOMAIN rows : rows[k].step = step}

\* the audit row log_outreach writes at time t
Entry(step, t) == [log_at |-> t, step |-> step]

\* the fields a fresh message leaves NULL
AllNull(m) ==
    /\ IsNull(m.sent_at)
    /\ IsNull(m.reply_received)
    /\ IsNull(m.reply_received_at)
    /\ IsNull(m.ai_reply)
    /\ IsNull(m.ai_reply_sent)
    /\ IsNull(m.follow_up_at)
    /\ IsNull(m.closed_at)

\* C1: send_message for an existing lead adds exactly one message, Enqueued,
\* with sent_at, reply_received, reply_received_at, ai_reply, ai_reply_sent,
\* follow_up_at and closed_at NULL and exactly one "enqueued" audit row; for
\* a lead that does not exist it answers 404 and adds no message.
C1_SendMessage ==
    [][last'.op = "send_message" =>
        IF last'.code = CREATED
        THEN /\ Len(messages') = Len(messages) + 1
             /\ \A i \in DOMAIN messages : messages'[i] = messages[i]
             /\ last'.id = Len(messages')
             /\ messages'[last'.id].leads_id \in DOMAIN leads
             /\ messages'[last'.id].status = Enqueued
             /\ AllNull(messages'[last'.id])
             /\ Cardinality(Entries(outreach_log'[last'.id], Enqueued)) = 1
        ELSE /\ last'.code = NOT_FOUND
             /\ last'.id \notin DOMAIN leads
             /\ messages' = messages
             /\ outreach_log' = outreach_log]_vars

\* a second message has just been created for the lead
C1_Witness ==
    /\ last = Step("send_message", 2, CREATED)
    /\ Len(messages) = 2
    /\ messages[2].status = Enqueued
    /\ outreach_log[2] = <<Entry(Enqueued, now)>>

\* C2: reply_to_message and ai_reply on a message id that does not exist
\* answer 404, change no message row and append no audit row.
C2_UnknownMessage ==
    [][(last'.op \in {"reply_to_message", "ai_reply"} /\ last'.id \notin DOMAIN messages) =>
        /\ last'.code = NOT_FOUND
        /\ messages' = messages
        /\ outreach_log' = outreach_log]_vars

\* an unknown id has just been refused while messages are stored
C2_Witness ==
    /\ last.op \in {"reply_to_message", "ai_reply"}
    /\ last.code = NOT_FOUND
    /\ last.id \notin DOMAIN messages
    /\ Len(messages) > 0

\* C3: reply_to_message on an existing message succeeds in every status; it
\* leaves the message Replied with reply_received and reply_received_at set,
\* appends one "replied" audit row, and leaves sent_at, ai_reply,
\* ai_reply_sent, follow_up_at and closed_at as they were.
C3_RecordReply ==
    [][(last'.op = "reply_to_message" /\ last'.id \in DOMAIN messages) =>
        LET old == messages[last'.id]
            new == messages'[last'.id]
        IN /\ last'.code = OK
           /\ new.status = Replied
           /\ NotNull(new.reply_received)
           /\ NotNull(new.reply_received_at)
           /\ outreach_log'[last'.id] = Append(outreach_log[last'.id], Entry(Replied, now))
           /\ new.sent_at = old.sent_at
           /\ new.ai_reply = old.ai_reply
           /\ new.ai_reply_sent = old.ai_reply_sent
           /\ new.follow_up_at = old.follow_up_at
           /\ new.closed_at = old.closed_at]_vars

\* a reply has just been recorded on a message that was Closed
C3_Witness ==
    /\ last.op = "reply_to_message"
    /\ last.code = OK
    /\ messages[last.id].status = Replied
    /\ NotNull(messages[last.id].closed_at)
    /\ outreach_log[last.id][Len(outreach_log[last.id]) - 1].step = Closed

\* C4: ai_reply on an existing message, in any status, leaves it AiEnqueued
\* with ai_reply set and one more audit row "ai_enqueued"; a run of the
\* AiEnqueued cycle moves every AiEnqueued message to AiReplied, sets its
\* ai_reply_sent and appends exactly one audit row "ai_replied" for it.
C4_AiReplyThenScan ==
    [][/\ (last'.op = "ai_reply" /\ last'.id \in DOMAIN messages) =>
            /\ last'.code = OK
            /\ messages'[last'.id].status = AiEnqueued
            /\ NotNull(messages'[last'.id].ai_reply)
            /\ outreach_log'[last'.id] =
                    Append(outreach_log[last'.id], Entry(AiEnqueued, now))
       /\ last'.op = "process_ai_enqueued_messages" =>
            \A i \in DOMAIN messages :
                messages[i].status = AiEnqueued =>
                    /\ messages'[i].status = AiReplied
                    /\ messages'[i].ai_reply_sent = Some(now)
                    /\ outreach_log'[i] = Append(outreach_log[i], Entry(AiReplied, now))]_vars

\* the AiEnqueued cycle has just answered a message whose AI reply was
\* requested while it was still Enqueued
C4_Witness ==
    /\ last.op = "process_ai_enqueued_messages"
    /\ \E i \in DOMAIN messages :
        /\ messages[i].status = AiReplied
        /\ messages[i].ai_reply_sent = Some(now)
        /\ IsNull(messages[i].sent_at)
        /\ outreach_log[i] =
              <<Entry(Enqueued, messages[i].created_at),
                outreach_log[i][2],
                Entry(AiReplied, now)>>
        /\ outreach_log[i][2].step = AiEnqueued

\* C5: a run of the Enqueued cycle moves every Enqueued message to Sent, sets
\* its sent_at and appends exactly one audit row "sent" for it.
C5_EnqueuedToSent ==
    [][last'.op = "process_enqueued_messages" =>
        \A i \in DOMAIN messages :
            messages[i].status = Enqueued =>
                /\ messages'[i].status = Sent
                /\ messages'[i].sent_at = Some(now)
                /\ outreach_log'[i] = Append(outreach_log[i], Entry(Sent, now))]_vars

\* one run of the cycle has just sent two messages
C5_Witness ==
    /\ last.op = "process_enqueued_messages"
    /\ Len(messages) = 2
    /\ \A i \in DOMAIN messages :
        /\ messages[i].status = Sent
        /\ messages[i].sent_at = Some(now)
        /\ outreach_log[i] = <<Entry(Enqueued, messages[i].created_at), Entry(Sent, now)>>

\* C6: from every reachable state and for each of the four cycles, a second
\* run right after the first, reading the same clock, leaves the messages
\* and the number of audit rows of every message as the first run left
\* them; and a second run at the next clock reading leaves every message the
\* first run processed, and its audit rows, as the first run left them.
C6_Idempotent ==
    \A cycle \in Cycles :
        LET db == Db(messages, outreach_log, transitions)
            once == RunCycle(cycle, db, now)
            twice == RunCycle(cycle, once, now)
            later == RunCycle(cycle, once, now + ClockStep)
        IN /\ twice.messages = once.messages
           /\ \A i \in DOMAIN messages :
                Len(twice.outreach_log[i]) = Len(once.outreach_log[i])
           /\ \A i \in Candidates(cycle, messages, now) :
                /\ later.messages[i] = once.messages[i]
                /\ later.outreach_log[i] = once.outreach_log[i]

\* a state in which the follow-up cycle and the close cycle both have a
\* candidate
C6_Witness ==
    /\ FollowUpCandidates(messages, Cutoff(now)) # {}
    /\ ClosedCandidates(messages, Cutoff(now)) # {}

\* C7: whenever no handler or cycle is in the middle of its statements, every
\* message whose status is Closed has exactly one audit row "closed", and
\* that row is the newest audit row of the message.
C7_ClosedLoggedLast ==
    tasks = EmptyBag =>
        \A i \in DOMAIN messages :
            messages[i].status = Closed =>
                /\ Cardinality(Entries(outreach_log[i], Closed)) = 1
                /\ outreach_log[i][Len(outreach_log[i])].step = Closed

\* C8: whenever no handler or cycle is in the middle of its statements, every
\* message has as many audit rows as writes applied to its row.
C8_AuditedWrites ==
    tasks = EmptyBag =>
        \A i \in DOMAIN messages : Len(outreach_log[i]) = transitions[i]

\* the timestamps of a message that are not NULL, in lifecycle order
Stamps(m) ==
    <<m.created_at>> \o m.sent_at \o m.follow_up_at \o m.closed_at

\* C9: for every message, created_at <= sent_at <= follow_up_at <= closed_at
\* over those of the four that are not NULL.
C9_Monotonic ==
    \A i \in DOMAIN messages :
        \A j, k \in DOMAIN Stamps(messages[i]) :
            j < k => Stamps(messages[i])[j] <= Stamps(messages[i])[k]

\* C10: a message whose closed_at is not NULL has status Closed.
C10_ClosedAtMeansClosed ==
    \A i \in DOMAIN messages :
        NotNull(messages[i].closed_at) => messages[i].status = Closed

\* the place of a status in the lifecycle
\* Enqueued, Sent, {Replied | AiEnqueued}, AiReplied, FollowUp, Closed
Rank(s) ==
    CASE s = Enqueued -> 0
      [] s = Sent -> 1
      [] s \in {Replied, AiEnqueued} -> 2
      [] s = AiReplied -> 3
      [] s = FollowUp -> 4
      [] s = Closed -> 5

\* C11: no step moves the status of a message to a status that precedes its
\* current status in the lifecycle order.
C11_ForwardOnly ==
    [][\A i \in DOMAIN messages :
            Rank(messages'[i].status) >= Rank(messages[i].status)]_vars

\* C12: while the status of a message is Replied, no step of a scan cycle
\* changes its row, and no scan cycle appends an audit row for it: its row
\* changes only in a step that serves a /reply or /ai/reply request, and a row
\* appended to its audit rows is never "sent", "ai_replied", "follow_up" or
\* "closed".
C12_RepliedAbsorbing ==
    [][\A i \in DOMAIN messages :
            messages[i].status = Replied =>
                /\ calls' = calls => messages'[i] = messages[i]
                /\ Len(outreach_log'[i]) > Len(outreach_log[i]) =>
                        outreach_log'[i][Len(outreach_log'[i])].step
                            \notin {NewStatus(cycle) : cycle \in Cycles}]_vars

\* C13: a message whose reply_received is not NULL is never FollowUp or
\* Closed.
C13_ReplyBlocksEscalation ==
    \A i \in DOMAIN messages :
        NotNull(messages[i].reply_received) =>
            messages[i].status \notin {FollowUp, Closed}

\* C14: every message has at most one audit row "sent", at most one
\* "follow_up" and at most one "closed"; and, whenever no handler or cycle is
\* in the middle of its statements, no more "ai_replied" rows than
\* "ai_enqueued" rows.
C14_OncePerTransition ==
    \A i \in DOMAIN messages :
        /\ \A step \in {Sent, FollowUp, Closed} :
                Cardinality(Entries(outreach_log[i], step)) <= 1
        /\ tasks = EmptyBag =>
                Cardinality(Entries(outreach_log[i], AiReplied))
                    <= Cardinality(Entries(outreach_log[i], AiEnqueued))

\* C15: in every state no message is a candidate of two different cycles, and
\* two different cycles run one after the other leave the same messages in
\* either order.
C15_DisjointCandidates ==
    \A c1, c2 \in Cycles :
        c1 # c2 =>
            LET db == Db(messages, outreach_log, transitions)
            IN /\ Candidates(c1, messages, now) \cap Candidates(c2, messages, now) = {}
               /\ RunCycle(c2, RunCycle(c1, db, now), now).messages
                    = RunCycle(c1, RunCycle(c2, db, now), now).messages

\* C16: from every state, for each cycle and each set `failed` of its
\* candidates whose UPDATE fails in one run: the message and the audit rows of
\* every failed candidate are left as they were; every other candidate is
\* moved to the cycle's status with one audit row appended; and every failed
\* candidate is a candidate of a later run, now or at the next clock reading,
\* which moves it and appends its one audit row.
C16_SkipAndRetry ==
    \A cycle \in Cycles :
        LET cands == Candidates(cycle, messages, now)
            db == Db(messages, outreach_log, transitions)
        IN \A failed \in SUBSET cands :
            LET after == ProcessSome(cycle, Rows(cands), failed, db, now)
            IN /\ \A i \in failed :
                    /\ after.messages[i] = messages[i]
                    /\ after.outreach_log[i] = outreach_log[i]
               /\ \A i \in cands \ failed :
                    /\ after.messages[i].status = NewStatus(cycle)
                    /\ after.outreach_log[i] =
                            Append(outreach_log[i], Entry(NewStatus(cycle), now))
               /\ \A t \in {now, now + ClockStep} :
                    LET retry == RunCycle(cycle, after, t)
                    IN \A i \in failed :
                        /\ i \in Candidates(cycle, after.messages, t)
                        /\ retry.messages[i].status = NewStatus(cycle)
                        /\ retry.outreach_log[i] =
                                Append(outreach_log[i], Entry(NewStatus(cycle), t))

\* a run of the Enqueued cycle has just sent the second of two messages
\* while the UPDATE of the first failed
C16_Witness ==
    /\ last.op = JobName(Enqueued)
    /\ Len(messages) = 2
    /\ messages[1].status = Enqueued
    /\ messages[2].status = Sent
    /\ messages[2].sent_at = Some(now)
    /\ outreach_log[1] = <<Entry(Enqueued, messages[1].created_at)>>

\* C17: a step that sets sent_at finds the message Enqueued, one that sets
\* ai_reply_sent finds it AiEnqueued, one that sets follow_up_at finds it
\* Sent, and one that sets closed_at finds it FollowUp.
C17_FromState ==
    [][\A i \in DOMAIN messages :
            /\ messages'[i].sent_at # messages[i].sent_at =>
                    messages[i].status = Enqueued
            /\ messages'[i].ai_reply_sent # messages[i].ai_reply_sent =>
                    messages[i].status = AiEnqueued
            /\ messages'[i].follow_up_at # messages[i].follow_up_at =>
                    messages[i].status = Sent
            /\ messages'[i].closed_at # messages[i].closed_at =>
                    messages[i].status = FollowUp]_vars

\* the difference of two timestamps is more than 24 hours
MoreThanADay(from, to) == Val(to) - Val(from) > Day

\* C18: a step that sets follow_up_at finds sent_at not NULL and more than
\* 24 hours before the time it writes, and reply_received, reply_received_at,
\* follow_up_at and closed_at NULL; a step that sets closed_at finds
\* follow_up_at not NULL and more than 24 hours before the time it writes,
\* and reply_received, reply_received_at and closed_at NULL; and in the state
\* it leaves, follow_up_at - sent_at > 24h and closed_at - follow_up_at > 24h
\* for every message that has both.
C18_EscalationGuards ==
    [][\A i \in DOMAIN messages :
            LET old == messages[i]
                new == messages'[i]
            IN /\ new.follow_up_at # old.follow_up_at =>
                    /\ NotNull(old.sent_at)
                    /\ MoreThanADay(old.sent_at, new.follow_up_at)
                    /\ IsNull(old.reply_received)
                    /\ IsNull(old.reply_received_at)
                    /\ IsNull(old.follow_up_at)
                    /\ IsNull(old.closed_at)
               /\ new.closed_at # old.closed_at =>
                    /\ NotNull(old.follow_up_at)
                    /\ MoreThanADay(old.follow_up_at, new.closed_at)
                    /\ IsNull(old.reply_received)
                    /\ IsNull(old.reply_received_at)
                    /\ IsNull(old.closed_at)
               /\ (NotNull(new.sent_at) /\ NotNull(new.follow_up_at)) =>
                    MoreThanADay(new.sent_at, new.follow_up_at)
               /\ (NotNull(new.follow_up_at) /\ NotNull(new.closed_at)) =>
                    MoreThanADay(new.follow_up_at, new.closed_at)]_vars

\* C19: from every state, for each cycle, whether its candidate query
\* succeeds or fails and whichever of its UPDATEs fail, one run leaves every
\* message outside its candidate set and that message's audit rows as they
\* were, creates and deletes no message, keeps every audit row that existed,
\* and changes nothing at all when the candidate set is empty or the query
\* fails.
C19_Frame ==
    \A cycle \in Cycles, ok \in BOOLEAN :
        LET cands == Candidates(cycle, messages, now)
            db == Db(messages, outreach_log, transitions)
        IN \A failed \in SUBSET cands :
            LET after == RunCycleWithErrors(cycle, db, now, ok, failed)
            IN /\ DOMAIN after.messages = DOMAIN messages
               /\ \A i \in DOMAIN messages \ cands :
                    /\ after.messages[i] = messages[i]
                    /\ after.outreach_log[i] = outreach_log[i]
               /\ \A i \in DOMAIN messages :
                    SubSeq(after.outreach_log[i], 1, Len(outreach_log[i])) = outreach_log[i]
               /\ (cands = {} \/ ~ok) => after = db

\* a run of the follow-up cycle has just escalated the first of two messages
\* and left the second, sent too recently to be a candidate, as it was
C19_Witness ==
    /\ last.op = JobName(FollowUp)
    /\ Len(messages) = 2
    /\ messages[1].status = FollowUp
    /\ messages[1].follow_up_at = Some(now)
    /\ messages[2].status = Sent
    /\ messages[2].sent_at = Some(now)
    /\ outreach_log[2] = <<Entry(Enqueued, messages[2].created_at), Entry(Sent, now)>>

\* message i exists and has the status s
HasStatus(i, s) == \E j \in DOMAIN messages : j = i /\ messages[j].status = s

\* message i exists and has a reply recorded
HasReply(i) == \E j \in DOMAIN messages : j = i /\ NotNull(messages[j].reply_received)

\* message i exists and was followed up by hour t
FollowedUpBy(i, t) ==
    \E j \in DOMAIN messages :
        /\ j = i
        /\ messages[j].status = FollowUp
        /\ NotNull(messages[j].follow_up_at)
        /\ Val(messages[j].follow_up_at) <= t

\* C20: every message that is AiReplied in the first hour is later Replied or
\* FollowUp, and every message that is FollowUp within the first 25 hours
\* is later Replied or Closed.
C20_AiRepliedEscalates ==
    \A i \in 1..MaxStepMsgs :
        /\ (HasStatus(i, AiReplied) /\ now = 0)
                ~> (HasReply(i) \/ HasStatus(i, FollowUp))
        /\ FollowedUpBy(i, ClockStep)
                ~> (HasReply(i) \/ HasStatus(i, Closed))

\* the escalation timestamps of a message are nested
Nested(m) ==
    /\ NotNull(m.closed_at) => NotNull(m.follow_up_at)
    /\ NotNull(m.follow_up_at) => NotNull(m.sent_at)
    /\ m.status = Enqueued =>
            (IsNull(m.sent_at) /\ IsNull(m.follow_up_at) /\ IsNull(m.closed_at))

\* C21: every step leaves every message with closed_at NULL unless
\* follow_up_at is set, follow_up_at NULL unless sent_at is set, and all three
\* NULL while its status is Enqueued; and no step makes a sent_at,
\* follow_up_at, closed_at, reply_received_at or ai_reply_sent that was set
\* NULL again.
C21_NestedAndPermanent ==
    [][/\ \A i \in DOMAIN messages' : Nested(messages'[i])
       /\ \A i \in DOMAIN messages :
            /\ NotNull(messages[i].sent_at) => NotNull(messages'[i].sent_at)
            /\ NotNull(messages[i].follow_up_at) => NotNull(messages'[i].follow_up_at)
            /\ NotNull(messages[i].closed_at) => NotNull(messages'[i].closed_at)
            /\ NotNull(messages[i].reply_received_at) =>
                    NotNull(messages'[i].reply_received_at)
            /\ NotNull(messages[i].ai_reply_sent) =>
                    NotNull(messages'[i].ai_reply_sent)]_vars

\* a message that was sent, followed up and closed has then been written by
\* /reply or /ai/reply and still carries its three timestamps
C21_Witness ==
    \E i \in DOMAIN messages :
        /\ NotNull(messages[i].sent_at)
        /\ NotNull(messages[i].follow_up_at)
        /\ NotNull(messages[i].closed_at)
        /\ messages[i].status \in {Replied, AiEnqueued}

\* the statuses of a message nobody replies to, in order
QuietPath == <<Enqueued, Sent, FollowUp, Closed>>

\* the step labels of the audit rows of one message, oldest first
StepsOf(rows) == [k \in DOMAIN rows |-> rows[k].step]

\* C22 (order): whenever no /reply and no /ai/reply request has been served
\* and no handler or cycle is in the middle of its statements, the audit rows
\* of every message are "enqueued", "sent", "follow_up", "closed" in that
\* order, up to the status the message has, and no others.
C22_QuietPath ==
    (calls = 0 /\ tasks = EmptyBag) =>
        \A i \in DOMAIN messages :
            LET n == Len(outreach_log[i])
            IN /\ n \in DOMAIN QuietPath
               /\ StepsOf(outreach_log[i]) = SubSeq(QuietPath, 1, n)
               /\ messages[i].status = QuietPath[n]

====
